---- MODULE Spec2Model ----
(***************************************************************************)
(* StyleCode Numerator: the serialized task queue (QueueService), the job  *)
(* lifecycle tracker (JobService) and the sequence-code allocation         *)
(* (PLMService.generateStyleCode / processStyleCodeAssignment).            *)
(*                                                                         *)
(* JavaScript strings are modelled as sequences of one-character strings,  *)
(* so that charAt, substring, length, toUpperCase, parseInt and padStart   *)
(* are computed the way the code computes them.                            *)
(*                                                                         *)
(* Note on src/plmService.js: generateStyleCode declares                   *)
(* `const FIXED_PREFIX_LENGTH = 9` twice (lines 116 and 132).  The model   *)
(* follows the function body as written, with the one value 9 for both.    *)
(***************************************************************************)
EXTENDS Integers, Sequences, FiniteSets, TLC

VARIABLES
    \* ---- QueueService (src/unnamed/part_000) ----
    queue,          \* this.queue: the pending items, head first (task ids)
    isProcessing,   \* this.isProcessing
    stats,          \* this.stats: total, completed, failed, inProgress
    running,        \* task ids whose operation was started by a draining loop
                    \* that is now suspended at `await queueItem.task()`
    \* ---- what the callers of the queue observe ----
    submitted,      \* number of addTask calls so far (the next task id - 1)
    startOrder,     \* task ids in the order their operations were invoked
    settleOrder,    \* task ids in the order resolve/reject was called
    handle,         \* task id -> state of the promise addTask returned
    opOutcome,      \* task id -> how the operation itself ended
    dropped,        \* task ids removed from the queue by clear()
    resetAt,        \* what had been submitted and ended at the last resetStats
    batch,          \* task ids of the batch request, in input order
    response,       \* what the batch request was answered with
    \* ---- units of work: processStyleCodeAssignment (src/plmService.js) ----
    taskStyle,      \* task id -> the styleId its closure captured (0: none)
    opState,        \* task id -> position and locals of the running operation
    store,          \* the remote STYLE table: styleId -> record
    assigned,       \* every update applied to the table: styleId, partition, sequence
    \* ---- JobService (src/jobService.js) ----
    jobs,           \* this.jobs: job id -> job
    jobOrder,       \* insertion order of this.jobs (a Map keeps it)
    created,        \* number of createJob calls so far
    now,            \* the clock read by `new Date()`
    updates,        \* number of updateJobStatus calls made directly so far
    lastCall,       \* the most recent call of JobService: method and arguments
    \* ---- a call of generateStyleCode on its own ----
    style,          \* argument: the target record
    similarStyles,  \* argument: the peer list
    generated,      \* what the last call returned
    calls,          \* how many calls were made
    \* ---- the assignment endpoints (src/server.js) ----
    taskJob,        \* task id -> the jobId its wrapper captured (0: none)
    lastRequest,    \* the most recent assignment request and its answer
    \* ---- TokenService (src/tokenService.js) ----
    accessToken,    \* this.accessToken (0: null)
    tokenExpiry,    \* this.tokenExpiry (0: null)
    tokenType,      \* this.tokenType
    fetching,       \* the calls waiting for the provider's answer, in order
    revoking,       \* number of refreshToken calls waiting for the revocation
    issued,         \* number of tokens the provider has issued
    tokenLog        \* what the calls of getAccessToken returned, in order

queueVars == <<queue, isProcessing, stats, running>>
callerVars == <<submitted, startOrder, settleOrder, handle, opOutcome, dropped>>
observerVars == <<resetAt, batch, response>>
unitVars == <<taskStyle, opState, store, assigned>>
jobVars == <<jobs, jobOrder, created, now, updates, lastCall>>
allocVars == <<style, similarStyles, generated, calls>>
requestVars == <<taskJob, lastRequest>>
tokenVars == <<accessToken, tokenExpiry, tokenType, fetching, revoking, issued,
              tokenLog>>
vars == <<queueVars, callerVars, observerVars, unitVars, jobVars, allocVars,
          requestVars, tokenVars>>

(***************************************************************************)
(* Bounds of the model.                                                    *)
(***************************************************************************)
MaxTasks == 3
MaxPeers == 3
MaxCalls == 2

\* calls of getAccessToken and refreshToken in one behaviour
MaxTokenCalls == 3

\* assignment requests that pass validation in one behaviour
MaxRequests == 2
MaxJobs == 3
MaxTime == 2
MaxUpdates == 2
NumStyles == 2
\* stands for this.maxJobHistory, which the constructor sets to 1000
maxJobHistory == 2

(***************************************************************************)
(* JavaScript string and number helpers.                                   *)
(***************************************************************************)
Digits == <<"0", "1", "2", "3", "4", "5", "6", "7", "8", "9">>

IsDigit(c) == \E i \in DOMAIN Digits : Digits[i] = c

DigitVal(c) == (CHOOSE i \in DOMAIN Digits : Digits[i] = c) - 1

\* String.prototype.toUpperCase on one character (the alphabet of the model)
UpperChar(c) ==
    CASE c = "a" -> "A"
      [] c = "b" -> "B"
      [] c = "c" -> "C"
      [] c = "s" -> "S"
      [] c = "t" -> "T"
      [] OTHER -> c

ToUpperCase(s) == [i \in DOMAIN s |-> UpperChar(s[i])]

\* s.substring(from) and s.substring(from, to), 0-based, clamped to the length
Substring(s, from, to) ==
    LET hi == IF to > Len(s) THEN Len(s) ELSE to
    IN  IF from >= hi THEN <<>> ELSE SubSeq(s, from + 1, hi)

SubstringFrom(s, from) == Substring(s, from, Len(s))

\* s.charAt(0): the empty string when s is empty
CharAt0(s) == Substring(s, 0, 1)

RECURSIVE SkipWhitespace(_)
SkipWhitespace(s) ==
    IF s # <<>> /\ Head(s) = " " THEN SkipWhitespace(Tail(s)) ELSE s

\* the value of the longest run of digits s starts with; seen = some digit read
RECURSIVE ReadDigits(_, _, _)
ReadDigits(s, acc, seen) ==
    IF s # <<>> /\ IsDigit(Head(s))
    THEN ReadDigits(Tail(s), 10 * acc + DigitVal(Head(s)), TRUE)
    ELSE [isNaN |-> ~seen, num |-> acc]

\* parseInt(s, 10): leading whitespace is skipped, one sign is accepted, then
\* the longest run of digits is read and whatever follows is dropped; NaN
\* when no digit was read.
ParseInt(s) ==
    LET t == SkipWhitespace(s)
        neg == t # <<>> /\ Head(t) = "-"
        u == IF t # <<>> /\ Head(t) \in {"+", "-"} THEN Tail(t) ELSE t
        r == ReadDigits(u, 0, FALSE)
    IN  [isNaN |-> r.isNaN, num |-> IF neg THEN 0 - r.num ELSE r.num]

\* n.toString() for n >= 0
RECURSIVE NatToString(_)
NatToString(n) ==
    IF n < 10 THEN <<Digits[n + 1]>>
    ELSE NatToString(n \div 10) \o <<Digits[(n % 10) + 1]>>

NumberToString(n) == IF n < 0 THEN <<"-">> \o NatToString(0 - n) ELSE NatToString(n)

\* s.padStart(width, '0')
RECURSIVE PadStart0(_, _)
PadStart0(s, width) == IF Len(s) >= width THEN s ELSE PadStart0(<<"0">> \o s, width)

(***************************************************************************)
(* PLMService.generateStyleCode (src/plmService.js 99-162).                *)
(* A StyleCode that is null, undefined or "" is the empty sequence: the    *)
(* code tests it only by truthiness.                                       *)
(***************************************************************************)
FIXED_PREFIX_LENGTH == 9

PadWidth == 3

\* lines 119-122: the integer a code carries, NaN when the code is falsy or
\* not longer than the prefix
SequenceOf(code) ==
    IF code # <<>> /\ Len(code) > FIXED_PREFIX_LENGTH
    THEN ParseInt(SubstringFrom(code, FIXED_PREFIX_LENGTH))
    ELSE [isNaN |-> TRUE, num |-> 0]

\* a slip in the loop: the last parsable peer wins instead of the largest
RECURSIVE MaxSequenceFromLastWins(_, _, _)
MaxSequenceFromLastWins(peers, i, m) ==
    IF i > Len(peers) THEN m
    ELSE LET q == SequenceOf(peers[i].StyleCode)
         IN  MaxSequenceFromLastWins(peers, i + 1, IF ~q.isNaN THEN q.num ELSE m)

\* lines 111-129: the loop over similarStyles, from index i with running max m
RECURSIVE MaxSequenceFrom(_, _, _)
MaxSequenceFrom(peers, i, m) ==
    IF i > Len(peers) THEN m
    ELSE LET q == SequenceOf(peers[i].StyleCode)
         IN  MaxSequenceFrom(peers, i + 1,
                             IF ~q.isNaN /\ q.num > m THEN q.num ELSE m)

MaxSequence(peers) == MaxSequenceFrom(peers, 1, 0)

\* lines 100-103
FixedPrefix(st) ==
    ToUpperCase(CharAt0(st.Brand.Code))
        \o ToUpperCase(Substring(st.Season.Name, 0, 4))
        \o <<"0">>
        \o Substring(st.ProductSubSubCategory.Code, 0, 3)

\* a slip in the short-circuit: the target is compared with the next sequence
AlreadyAtMaxOffByOne(st, peers) ==
    LET cur == SequenceOf(st.StyleCode)
    IN  ~cur.isNaN /\ cur.num = MaxSequence(peers) + 1

\* lines 131-143
AlreadyAtMax(st, peers) ==
    LET cur == SequenceOf(st.StyleCode)
    IN  ~cur.isNaN /\ cur.num = MaxSequence(peers)

\* line 146
NextSequence(peers) == MaxSequence(peers) + 1

\* line 141: `return null`
NoUpdate == [isNull |-> TRUE, StyleCode |-> <<>>, PatternSpecNumber |-> <<>>]

generateStyleCode(st, peers) ==
    IF AlreadyAtMax(st, peers) THEN NoUpdate
    ELSE LET sequenceStr == PadStart0(NumberToString(NextSequence(peers)), PadWidth)
             styleCode == FixedPrefix(st) \o sequenceStr
         IN  [isNull |-> FALSE, StyleCode |-> styleCode, PatternSpecNumber |-> styleCode]

(***************************************************************************)
(* The records the model draws its inputs from.                            *)
(***************************************************************************)
\* Brand.Code, Season.Name and ProductSubSubCategory.Code of the STYLE rows
BrandCodes == {<<"b", "c">>}

SeasonNames == {<<"s", "s", "2", "4", "a">>, <<"s">>}

CategoryCodes == {<<"c", "a", "t", "9">>}

\* the prefix of a code whose record has the first season name
Prefix9 == <<"B", "S", "S", "2", "4", "0", "c", "a", "t">>

\* StyleCode values found on records: none, one no longer than the prefix,
\* and the prefix followed by a suffix
Suffixes ==
    { <<"0", "0", "1">>, <<"0", "0", "2">>, <<"0", "0", "3">>,
      <<"-", "5">>, <<"1", "2", "A">>, <<"A", "B", "C">> }

StyleCodes == {<<>>, Prefix9} \cup {Prefix9 \o x : x \in Suffixes}

StyleRecord(id, code, brand, seasonId, seasonName, catId, catCode) ==
    [StyleId |-> id, StyleCode |-> code, PatternSpecNumber |-> code,
     Brand |-> [Code |-> brand],
     Season |-> [Id |-> seasonId, Name |-> seasonName],
     ProductSubSubCategory |-> [Id |-> catId, Code |-> catCode]]

\* the codes the target record is tried with: none, one no longer than the
\* prefix, and suffixes 003, -5 and 12A
TargetCodes ==
    {<<>>, Prefix9} \cup
        {Prefix9 \o x : x \in {<<"0", "0", "3">>, <<"-", "5">>, <<"1", "2", "A">>}}

TargetStyles ==
    { StyleRecord(1, code, b, 1, sn, 1, cc) :
        code \in TargetCodes, b \in BrandCodes, sn \in SeasonNames, cc \in CategoryCodes }

\* the rows getSimilarStyles selects: StyleId and StyleCode
PeerLists ==
    UNION { [1..n -> StyleCodes] : n \in 0..MaxPeers }

PeersOf(codes) == [i \in DOMAIN codes |-> [StyleId |-> i, StyleCode |-> codes[i]]]

(***************************************************************************)
(* Idle values of each part of the state.                                  *)
(***************************************************************************)
Tasks == 1..MaxTasks

NoStats == [total |-> 0, completed |-> 0, failed |-> 0, inProgress |-> 0]

Pending == [state |-> "pending", value |-> "none"]

NotEnded == [kind |-> "none", value |-> "none"]

\* nothing was submitted or had ended when the counters were last at zero
NoReset == [submitted |-> 0, completed |-> 0, failed |-> 0, inFlight |-> 0]

\* the batch request was not answered
NoResponse == [status |-> "none"]

QueueIdle ==
    /\ queue = <<>>
    /\ isProcessing = FALSE
    /\ stats = NoStats
    /\ running = {}
    /\ submitted = 0
    /\ startOrder = <<>>
    /\ settleOrder = <<>>
    /\ handle = [t \in Tasks |-> Pending]
    /\ opOutcome = [t \in Tasks |-> NotEnded]
    /\ dropped = {}
    /\ resetAt = NoReset
    /\ batch = <<>>
    /\ response = NoResponse

UnitsIdle ==
    /\ taskStyle = [t \in Tasks |-> 0]
    /\ opState = [t \in Tasks |-> [pc |-> "none"]]
    /\ store = <<>>
    /\ assigned = {}

JobIds == 1..MaxJobs

\* a Date that is null (jobService.js 28-29); the clock starts after it
NullDate == 0

\* an id this.jobs has no entry for
NoJob == [status |-> "absent"]

\* no call of JobService was made yet
NoCall == [op |-> "none"]

JobsIdle ==
    /\ jobs = [j \in JobIds |-> NoJob]
    /\ jobOrder = <<>>
    /\ created = 0
    /\ now = 1
    /\ updates = 0
    /\ lastCall = NoCall

\* no request has been made yet
NoRequest == [endpoint |-> "none"]

RequestsIdle ==
    /\ taskJob = [t \in Tasks |-> 0]
    /\ lastRequest = NoRequest

\* tokenService.js 11-14: nothing is cached after construction
TokenIdle ==
    /\ accessToken = 0
    /\ tokenExpiry = 0
    /\ tokenType = "null"
    /\ fetching = <<>>
    /\ revoking = 0
    /\ issued = 0
    /\ tokenLog = <<>>

AllocIdle ==
    /\ style = StyleRecord(1, <<>>, <<>>, 1, <<>>, 1, <<>>)
    /\ similarStyles = <<>>
    /\ generated = NoUpdate
    /\ calls = 0

(***************************************************************************)
(* SpecAlloc: generateStyleCode called on its own, on any target record    *)
(* and peer list of the sets above.                                        *)
(***************************************************************************)
InitAlloc ==
    /\ QueueIdle /\ UnitsIdle /\ JobsIdle /\ RequestsIdle /\ TokenIdle
    /\ style \in TargetStyles
    /\ similarStyles \in {PeersOf(c) : c \in PeerLists}
    /\ generated = NoUpdate
    /\ calls = 0

\* one call; the function assigns to neither argument
Generate ==
    /\ calls < MaxCalls
    /\ generated' = generateStyleCode(style, similarStyles)
    /\ calls' = calls + 1
    /\ UNCHANGED <<style, similarStyles>>
    /\ UNCHANGED <<queueVars, callerVars, observerVars, unitVars, jobVars>>
    /\ UNCHANGED <<requestVars, tokenVars>>

NextAlloc == Generate

SpecAlloc == InitAlloc /\ [][NextAlloc]_vars

(***************************************************************************)
(* QueueService (src/unnamed/part_000).                                    *)
(*                                                                         *)
(* JavaScript runs each handler to its next await without interruption, so *)
(* an action is one such run.  addTask runs processQueue synchronously up  *)
(* to `await queueItem.task()`, which invokes the operation; the loop      *)
(* resumes when that operation settles, records the outcome, settles the   *)
(* handle and goes round the loop to the next await or to the loop's end.  *)
(* A task id is the position of its addTask call among all addTask calls.  *)
(***************************************************************************)
\* what an operation can end with: a result, or a thrown value.  "null" is a
\* thrown null or undefined, the values that have no property `message`.
Results == {"r1", "r2"}

ErrorObjects == {"Error1", "Error2"}

ThrownValues == ErrorObjects \cup {"null"}

Outcomes ==
    [kind : {"ok"}, value : Results] \cup [kind : {"err"}, value : ThrownValues]

Resolved(v) == [state |-> "resolved", value |-> v]

Rejected(e) == [state |-> "rejected", value |-> e]

\* a promise settles once: later resolve/reject calls change nothing
Settle(h, to) == IF h = Pending THEN to ELSE h

\* line 92: `error.message` throws a TypeError when error is null or undefined
HasMessage(e) == e # "null"

\* a slip at line 62: the flag is not raised when draining starts
DrainingFlagNotRaised == FALSE

\* line 62: this.isProcessing = true
DrainingFlag == TRUE

\* a slip at line 65: pop() instead of shift()
Pop(q) == [item |-> q[Len(q)], rest |-> SubSeq(q, 1, Len(q) - 1)]

\* line 65: this.queue.shift()
Shift(q) == [item |-> Head(q), rest |-> Tail(q)]

\* the first position of a unit of work, reached synchronously when the loop
\* invokes queueItem.task(): an opaque operation, or
\* processStyleCodeAssignment up to its first await
FirstState(sid) ==
    IF sid = 0 THEN [pc |-> "task"] ELSE [pc |-> "getStyleDetails"]

\* lines 64-77: one round of the loop from its test to the await, or line 97.
\* q, st, flag: queue, stats and isProcessing as the loop finds them;
\* run: the operations in flight; sty: the closures of the tasks.
LoopRound(q, st, flag, run, sty) ==
    IF Len(q) > 0
    THEN LET s == Shift(q)
         IN  /\ queue' = s.rest
             /\ stats' = [st EXCEPT !.inProgress = @ + 1]
             /\ isProcessing' = flag
             /\ running' = run \cup {s.item}
             /\ startOrder' = Append(startOrder, s.item)
             /\ opState' = [opState EXCEPT ![s.item] = FirstState(sty[s.item])]
    ELSE /\ queue' = q
         /\ stats' = st
         /\ isProcessing' = FALSE
         /\ running' = run
         /\ UNCHANGED <<startOrder, opState>>

\* lines 52-62 then the loop: processQueue called by addTask
ProcessQueue(q, st, sty) ==
    IF isProcessing \/ Len(q) = 0
    THEN /\ queue' = q
         /\ stats' = st
         /\ UNCHANGED <<isProcessing, running, startOrder, opState>>
    ELSE LoopRound(q, st, DrainingFlag, running, sty)

\* lines 25-47: addTask(task, identifier); sid says which operation task is
AddTask(sid) ==
    /\ submitted < MaxTasks
    /\ LET id == submitted + 1
           q == Append(queue, id)
           st == [stats EXCEPT !.total = @ + 1]
           sty == [taskStyle EXCEPT ![id] = sid]
       IN  /\ submitted' = id
           /\ taskStyle' = sty
           /\ IF ~isProcessing
              THEN ProcessQueue(q, st, sty)
              ELSE /\ queue' = q
                   /\ stats' = st
                   /\ UNCHANGED <<isProcessing, running, startOrder, opState>>
    /\ UNCHANGED <<settleOrder, handle, opOutcome, dropped>>

\* addTask called once for each element of sids, in order, with nothing in
\* between (Array.prototype.map at server.js 346): the first call starts the
\* draining loop if it is idle, the later ones find the flag raised
AddTasks(sids) ==
    /\ submitted + Len(sids) <= MaxTasks
    /\ LET ids == [i \in DOMAIN sids |-> submitted + i]
           q == queue \o ids
           st == [stats EXCEPT !.total = @ + Len(sids)]
           sty == [t \in Tasks |->
                      IF t > submitted /\ t <= submitted + Len(sids)
                      THEN sids[t - submitted] ELSE taskStyle[t]]
       IN  /\ submitted' = submitted + Len(sids)
           /\ taskStyle' = sty
           /\ IF ~isProcessing
              THEN ProcessQueue(q, st, sty)
              ELSE /\ queue' = q
                   /\ stats' = st
                   /\ UNCHANGED <<isProcessing, running, startOrder, opState>>
    /\ UNCHANGED <<settleOrder, handle, opOutcome, dropped>>

\* lines 77-95 and round the loop: the operation of task t has settled with
\* `out` and the loop that awaited it resumes
LoopResumes(t, out) ==
    /\ t \in running
    /\ opOutcome' = [opOutcome EXCEPT ![t] = out]
    /\ IF out.kind = "ok"
       THEN \* lines 79-84
            /\ handle' = [handle EXCEPT ![t] = Settle(@, Resolved(out.value))]
            /\ settleOrder' = Append(settleOrder, t)
            /\ LoopRound(queue,
                         [stats EXCEPT !.completed = @ + 1, !.inProgress = @ - 1],
                         isProcessing, running \ {t}, taskStyle)
       ELSE IF HasMessage(out.value)
       THEN \* lines 87-93
            /\ handle' = [handle EXCEPT ![t] = Settle(@, Rejected(out.value))]
            /\ settleOrder' = Append(settleOrder, t)
            /\ LoopRound(queue,
                         [stats EXCEPT !.failed = @ + 1, !.inProgress = @ - 1],
                         isProcessing, running \ {t}, taskStyle)
       ELSE \* lines 87-92: the catch block itself throws at `error.message`;
            \* processQueue ends there, before reject and before line 97
            /\ stats' = [stats EXCEPT !.failed = @ + 1, !.inProgress = @ - 1]
            /\ running' = running \ {t}
            /\ UNCHANGED <<queue, isProcessing, handle, settleOrder, startOrder, opState>>
    /\ UNCHANGED <<submitted, dropped, taskStyle>>

\* an opaque operation settles, with any outcome
OperationEnds ==
    \E t \in running, out \in Outcomes :
        /\ taskStyle[t] = 0
        /\ LoopResumes(t, out)
        /\ UNCHANGED <<observerVars, store, assigned, jobVars, allocVars, requestVars, tokenVars>>

\* addTask with an opaque operation
AddOperation ==
    /\ AddTask(0)
    /\ UNCHANGED <<observerVars, store, assigned, jobVars, allocVars, requestVars, tokenVars>>

\* a slip at line 123: the draining flag is left as it is
ClearKeepsFlag ==
    /\ queue' = <<>>
    /\ dropped' = dropped \cup {queue[i] : i \in DOMAIN queue}
    /\ UNCHANGED <<isProcessing, stats, running>>
    /\ UNCHANGED <<submitted, startOrder, settleOrder, handle, opOutcome>>
    /\ UNCHANGED <<observerVars, unitVars, jobVars, allocVars, requestVars, tokenVars>>

\* lines 121-125
Clear ==
    /\ queue' = <<>>
    /\ isProcessing' = FALSE
    /\ dropped' = dropped \cup {queue[i] : i \in DOMAIN queue}
    /\ UNCHANGED <<stats, running>>
    /\ UNCHANGED <<submitted, startOrder, settleOrder, handle, opOutcome>>
    /\ UNCHANGED <<observerVars, unitVars, jobVars, allocVars, requestVars, tokenVars>>

\* the number of operations that have ended so far, by the kind of their end
Ended(kind) == Cardinality({t \in Tasks : opOutcome[t].kind = kind})

\* lines 130-138
ResetStats ==
    /\ stats' = NoStats
    /\ resetAt' = [submitted |-> submitted,
                   completed |-> Ended("ok"),
                   failed |-> Ended("err"),
                   inFlight |-> Cardinality(running)]
    /\ UNCHANGED <<queue, isProcessing, running>>
    /\ UNCHANGED <<callerVars, batch, response, unitVars, jobVars, allocVars, requestVars, tokenVars>>

InitQueue == QueueIdle /\ UnitsIdle /\ JobsIdle /\ RequestsIdle /\ TokenIdle /\ AllocIdle

\* the queue with opaque operations and every entry point
Next == AddOperation \/ OperationEnds \/ Clear \/ ResetStats

Spec == InitQueue /\ [][Next]_vars

\* the queue when clear() is not called
NextNoClear == AddOperation \/ OperationEnds \/ ResetStats

SpecNoClear == InitQueue /\ [][NextNoClear]_vars

\* the same when every operation the queue has started settles in the end
SpecLive == SpecNoClear /\ WF_vars(OperationEnds)

(***************************************************************************)
(* JobService (src/jobService.js).  A job id is the position of its        *)
(* createJob call among all createJob calls; jobOrder is the iteration     *)
(* order of the Map this.jobs.                                             *)
(***************************************************************************)
Statuses == {"pending", "processing", "completed", "failed"}

Terminal(status) == status = "completed" \/ status = "failed"

\* the values data.result and data.error take: absent, a falsy value, a value
DataValues == {"undefined", "false", "value"}

Truthy(v) == v \notin {"undefined", "null", "false"}

\* Array.prototype.sort by createdAt, which is stable: seq[i] goes behind
\* every element created no later than it
RECURSIVE InsertByCreatedAt(_, _, _)
InsertByCreatedAt(sorted, id, js) ==
    IF sorted = <<>> THEN <<id>>
    ELSE IF js[sorted[Len(sorted)]].createdAt <= js[id].createdAt
    THEN Append(sorted, id)
    ELSE Append(InsertByCreatedAt(SubSeq(sorted, 1, Len(sorted) - 1), id, js),
                sorted[Len(sorted)])

RECURSIVE SortByCreatedAt(_, _, _, _)
SortByCreatedAt(order, i, acc, js) ==
    IF i > Len(order) THEN acc
    ELSE SortByCreatedAt(order, i + 1, InsertByCreatedAt(acc, order[i], js), js)

\* the Map's iteration order after this.jobs.delete of the ids in `gone`
RECURSIVE WithoutIds(_, _)
WithoutIds(seq, gone) ==
    IF seq = <<>> THEN <<>>
    ELSE (IF Head(seq) \in gone THEN <<>> ELSE <<Head(seq)>>) \o WithoutIds(Tail(seq), gone)

\* a slip in the loop of lines 129-135: the youngest terminal jobs go first
CleanupVictimsYoungestFirst(js, order) ==
    LET sorted == SortByCreatedAt(order, 1, <<>>, js)
        toRemove == Len(sorted) - maxJobHistory
        term == SelectSeq(sorted, LAMBDA j : Terminal(js[j].status))
    IN  IF toRemove > 0
        THEN { term[i] : i \in { k \in DOMAIN term : k > Len(term) - toRemove } }
        ELSE {}

\* a slip at line 131: the status of the job is not looked at
CleanupVictimsAnyStatus(js, order) ==
    LET sorted == SortByCreatedAt(order, 1, <<>>, js)
        toRemove == Len(sorted) - maxJobHistory
    IN  IF toRemove > 0 THEN { sorted[i] : i \in 1..toRemove } ELSE {}

\* lines 121-138: the ids cleanupOldJobs deletes from the store js / order
CleanupVictims(js, order) ==
    LET sorted == SortByCreatedAt(order, 1, <<>>, js)
        toRemove == Len(sorted) - maxJobHistory
    IN  IF toRemove > 0
        THEN { sorted[i] : i \in { k \in 1..toRemove : Terminal(js[sorted[k]].status) } }
        ELSE {}

\* lines 19-43: the id createJob(type, payload) returns and the store it
\* leaves
createJob(payload) ==
    LET id == created + 1
        job == [status |-> "pending", type |-> "stylecode_assignment",
                payload |-> payload, createdAt |-> now,
                startedAt |-> NullDate, completedAt |-> NullDate,
                result |-> "null", error |-> "null"]
        js == [jobs EXCEPT ![id] = job]
        order == Append(jobOrder, id)
        victims == IF Len(order) > maxJobHistory
                   THEN CleanupVictims(js, order) ELSE {}
    IN  [id |-> id,
         jobs |-> [j \in JobIds |-> IF j \in victims THEN NoJob ELSE js[j]],
         jobOrder |-> WithoutIds(order, victims)]

\* lines 19-43: createJob(type, payload)
CreateJob(payload) ==
    /\ created < MaxJobs
    /\ created' = createJob(payload).id
    /\ jobs' = createJob(payload).jobs
    /\ jobOrder' = createJob(payload).jobOrder
    /\ UNCHANGED now

\* a slip at line 60: startedAt is stamped on every 'processing' update
UpdatedJobRestamps(job, status, data) ==
    LET j1 == [job EXCEPT !.status = status]
    IN  IF status = "processing" THEN [j1 EXCEPT !.startedAt = now] ELSE j1

\* lines 58-72: the job after updateJobStatus(id, status, data) found it
UpdatedJob(job, status, data) ==
    LET j1 == [job EXCEPT !.status = status]
        j2 == IF status = "processing" /\ j1.startedAt = NullDate
              THEN [j1 EXCEPT !.startedAt = now] ELSE j1
    IN  IF Terminal(status)
        THEN LET j3 == [j2 EXCEPT !.completedAt = now]
             IN  IF status = "completed"
                 THEN [j3 EXCEPT !.result =
                          IF Truthy(data.result) THEN data.result ELSE "null"]
                 ELSE [j3 EXCEPT !.error =
                          IF Truthy(data.error) THEN data.error ELSE "Unknown error"]
        ELSE j2

\* a slip at lines 52-56: an unknown id gets an entry instead of a warning
UpdateJobStatusUpsert(id, status, data) ==
    /\ jobs' = IF jobs[id] = NoJob
               THEN [jobs EXCEPT ![id] = [status |-> status]]
               ELSE [jobs EXCEPT ![id] = UpdatedJob(@, status, data)]
    /\ UNCHANGED <<jobOrder, created, now>>

\* lines 51-76: the store js after updateJobStatus(jobId, status, data)
updateJobStatus(js, id, status, data) ==
    IF js[id] = NoJob THEN js
    ELSE [js EXCEPT ![id] = UpdatedJob(@, status, data)]

\* lines 51-76: updateJobStatus(jobId, status, data)
UpdateJobStatus(id, status, data) ==
    /\ jobs' = updateJobStatus(jobs, id, status, data)
    /\ UNCHANGED <<jobOrder, created, now>>

\* a duration that is null
NoDuration == [isNull |-> TRUE, text |-> <<>>]

\* the template `${duration}ms`
DurationText(ms) == [isNull |-> FALSE, text |-> NumberToString(ms) \o <<"m", "s">>]

\* what getJob answers for an id the store has no entry for (line 87)
NotFound == [found |-> FALSE]

\* lines 83-101: getJob(jobId), called when the clock reads `now`; a Date is
\* truthy, a null date and the number 0 are falsy
getJob(id) ==
    IF jobs[id] = NoJob THEN NotFound
    ELSE LET job == jobs[id]
             endTime == IF job.completedAt # NullDate THEN job.completedAt ELSE now
             duration == IF job.startedAt # NullDate
                         THEN [isNull |-> FALSE, ms |-> endTime - job.startedAt]
                         ELSE [isNull |-> TRUE, ms |-> 0]
         IN  [found |-> TRUE, job |-> job,
              duration |-> IF ~duration.isNull /\ duration.ms # 0
                           THEN DurationText(duration.ms) ELSE NoDuration]

\* time passes between two calls
Tick ==
    /\ now < MaxTime
    /\ now' = now + 1
    /\ UNCHANGED <<jobs, jobOrder, created>>

CallCreateJob ==
    /\ CreateJob(1)
    /\ lastCall' = [op |-> "createJob", id |-> created + 1]
    /\ UNCHANGED updates
    /\ UNCHANGED <<queueVars, callerVars, observerVars, unitVars, allocVars, requestVars, tokenVars>>

\* the data a caller passes with a status: a result with completed, an error
\* with failed, nothing otherwise
DataFor(status) ==
    CASE status = "completed" -> [result : DataValues, error : {"undefined"}]
      [] status = "failed" -> [result : {"undefined"}, error : DataValues]
      [] OTHER -> [result : {"undefined"}, error : {"undefined"}]

CallUpdateJobStatus ==
    \E id \in JobIds, status \in Statuses :
      \E data \in DataFor(status) :
        /\ updates < MaxUpdates
        /\ updates' = updates + 1
        /\ lastCall' = [op |-> "updateJobStatus", id |-> id, status |-> status,
                        data |-> data]
        /\ UpdateJobStatus(id, status, data)
        /\ UNCHANGED <<queueVars, callerVars, observerVars, unitVars, allocVars, requestVars, tokenVars>>

ClockTicks ==
    /\ Tick
    /\ UNCHANGED <<updates, lastCall>>
    /\ UNCHANGED <<queueVars, callerVars, observerVars, unitVars, allocVars, requestVars, tokenVars>>

InitJobs == QueueIdle /\ UnitsIdle /\ JobsIdle /\ RequestsIdle /\ TokenIdle /\ AllocIdle

NextJobs == CallCreateJob \/ CallUpdateJobStatus \/ ClockTicks

\* JobService called directly, in any order
SpecJobs == InitJobs /\ [][NextJobs]_vars

(***************************************************************************)
(* PLMService.processStyleCodeAssignment (src/plmService.js 267-340) as a  *)
(* unit of work of the queue.  Each await on the remote service is one     *)
(* action: the request reads or writes the STYLE table at that moment, or  *)
(* fails.  A step that ends the operation is followed at once by the       *)
(* resumption of the loop that awaited it.                                 *)
(***************************************************************************)
StyleIds == 1..NumStyles

\* ProductSubSubCategory rows: Id -> Code
CategoryCodeOf(catId) == IF catId = 1 THEN <<"c", "a", "t", "9">> ELSE <<"d", "o", "g">>

\* the STYLE tables the model starts from: no record has a code yet; the
\* records share brand and season and lie in category 1 or 2
InitialStores ==
    { [id \in StyleIds |->
          StyleRecord(id, <<>>, b, 1, sn, cat[id], CategoryCodeOf(cat[id]))] :
        b \in BrandCodes, sn \in SeasonNames, cat \in [StyleIds -> {1, 2}] }

\* the grouping key of getSimilarStyles (lines 69-72)
Partition(rec) == <<rec.Season.Id, rec.ProductSubSubCategory.Id>>

\* lines 65-90: the rows of the same season and category, in id order
RECURSIVE SimilarFrom(_, _, _)
SimilarFrom(st, key, id) ==
    IF id > NumStyles THEN <<>>
    ELSE (IF Partition(st[id]) = key
          THEN <<[StyleId |-> id, StyleCode |-> st[id].StyleCode]>> ELSE <<>>)
         \o SimilarFrom(st, key, id + 1)

getSimilarStyles(st, seasonId, catId) == SimilarFrom(st, <<seasonId, catId>>, 1)

\* what the remote calls throw: an Error object
UpstreamError == [kind |-> "err", value |-> "Error1"]

\* tokenService.js 120-123: what getAuthorizationHeader throws when no token
\* can be had
TokenError == [kind |-> "err", value |-> "Error2"]

\* error.message of the Error objects
MessageOf(e) ==
    CASE e = "Error1" -> "Request failed"
      [] e = "Error2" -> "Failed to acquire access token"

\* the values a field of a request body holds: absent, a number, a string
Undefined == [type |-> "undefined"]

Num(n) == [type |-> "number", num |-> n]

Str(s) == [type |-> "string", str |-> s]

\* truthiness of such a value: undefined, 0 and "" are falsy
TruthyValue(v) ==
    CASE v.type = "number" -> v.num # 0
      [] v.type = "string" -> v.str # <<>>
      [] OTHER -> FALSE

\* String.prototype.toLowerCase on one character (the letters of the pattern)
LowerChar(c) ==
    CASE c = "S" -> "s"
      [] c = "T" -> "t"
      [] c = "Y" -> "y"
      [] c = "L" -> "l"
      [] c = "E" -> "e"
      [] c = "I" -> "i"
      [] c = "D" -> "d"
      [] c = "Q" -> "q"
      [] OTHER -> c

\* s starts with the lower-case word, case ignored (the flag i)
StartsWithIgnoringCase(s, word) ==
    /\ Len(s) >= Len(word)
    /\ \A i \in DOMAIN word : LowerChar(s[i]) = word[i]

\* the longest run of digits s starts with
RECURSIVE DigitRun(_)
DigitRun(s) ==
    IF s # <<>> /\ IsDigit(Head(s)) THEN <<Head(s)>> \o DigitRun(Tail(s)) ELSE <<>>

NoMatch == [matched |-> FALSE, group |-> <<>>]

\* server.js 74: /StyleId\s+eq\s+(\d+)/i tried at the start of s
MatchHere(s) ==
    IF ~StartsWithIgnoringCase(s, <<"s", "t", "y", "l", "e", "i", "d">>) THEN NoMatch
    ELSE LET a == SubstringFrom(s, 7)
             b == SkipWhitespace(a)
         IN  IF Len(b) = Len(a) \/ ~StartsWithIgnoringCase(b, <<"e", "q">>) THEN NoMatch
             ELSE LET c == SubstringFrom(b, 2)
                      d == SkipWhitespace(c)
                  IN  IF Len(d) = Len(c) \/ DigitRun(d) = <<>> THEN NoMatch
                      ELSE [matched |-> TRUE, group |-> DigitRun(d)]

\* server.js 74: input.match(...), the leftmost match
RECURSIVE Match(_)
Match(s) ==
    IF s = <<>> THEN NoMatch
    ELSE IF MatchHere(s).matched THEN MatchHere(s)
    ELSE Match(Tail(s))

\* what parseStyleId returns: null, or a number
NullId == [isNull |-> TRUE, num |-> 0]

NumberId(n) == [isNull |-> FALSE, num |-> n]

\* server.js 61-87: parseStyleId(input)
parseStyleId(input) ==
    IF ~TruthyValue(input) THEN NullId
    ELSE IF input.type = "number" THEN NumberId(input.num)
    ELSE IF input.type = "string"
    THEN IF Match(input.str).matched
         THEN NumberId(ParseInt(Match(input.str).group).num)
         ELSE IF ~ParseInt(input.str).isNaN
         THEN NumberId(ParseInt(input.str).num)
         ELSE NullId
    ELSE NullId

\* a slip at server.js 104 and 155: the parsed id is not tested
RejectsNothing(styleId) == FALSE

\* server.js 104 and 155: !styleId
Rejects(styleId) == styleId.isNull \/ styleId.num = 0

\* the reference to the object the operation of task t returned
\* (opOutcome[t].value)
ResultOf(t) == ToString(t)

\* server.js 177 and 180: the data the wrapper of the async unit t passes to
\* updateJobStatus when its operation has ended with `out`
WrapperData(t, out) ==
    IF out.kind = "ok"
    THEN [result |-> ResultOf(t), error |-> "undefined"]
    ELSE [result |-> "undefined", error |-> MessageOf(out.value)]

\* a slip at server.js 175: the wrapper does not mark the job as processing
WrapperUpdatedNoProcessing(js, tj) ==
    LET ended == {t \in Tasks : /\ tj[t] # 0
                                /\ opOutcome[t].kind = "none"
                                /\ opOutcome'[t].kind # "none"}
    IN  IF ended = {} THEN js
        ELSE LET t == CHOOSE u \in ended : TRUE
             IN  updateJobStatus(js, tj[t],
                                 IF opOutcome'[t].kind = "ok" THEN "completed"
                                 ELSE "failed",
                                 WrapperData(t, opOutcome'[t]))

\* server.js 173-183: the job store after the wrappers of the async units
\* that the step ends or starts have acted on the store js; tj: task -> job.
\* The wrapper of the ended unit records its end (177 or 180) before the
\* loop resumes, and the loop then invokes the next wrapper, which marks its
\* job (175).
WrapperUpdated(js, tj) ==
    LET ended == {t \in Tasks : /\ tj[t] # 0
                                /\ opOutcome[t].kind = "none"
                                /\ opOutcome'[t].kind # "none"}
        js1 == IF ended = {} THEN js
               ELSE LET t == CHOOSE u \in ended : TRUE
                    IN  updateJobStatus(js, tj[t],
                                        IF opOutcome'[t].kind = "ok" THEN "completed"
                                        ELSE "failed",
                                        WrapperData(t, opOutcome'[t]))
        started == IF Len(startOrder') > Len(startOrder)
                   THEN {startOrder'[Len(startOrder')]} ELSE {}
    IN  IF \E t \in started : tj[t] # 0
        THEN LET t == CHOOSE u \in started : TRUE
             IN  updateJobStatus(js1, tj[t], "processing",
                                 [result |-> "undefined", error |-> "undefined"])
        ELSE js1

\* the job store in a step of a unit of work
WrapperUpdates ==
    /\ jobs' = WrapperUpdated(jobs, taskJob)
    /\ UNCHANGED <<jobOrder, created, now, updates, lastCall>>

AssignmentStep(t, pc) ==
    /\ t \in running
    /\ taskStyle[t] # 0
    /\ opState[t].pc = pc

\* the queue is untouched by a step that leaves the operation running
OperationGoesOn ==
    /\ UNCHANGED <<queueVars, callerVars, taskStyle>>

\* lines 273-274: getStyleDetails returns the record, or throws (upstream
\* failure, record not found, Brand/Season/Category missing)
GetStyleDetails ==
    \E t \in running :
        /\ AssignmentStep(t, "getStyleDetails")
        /\ \/ /\ opState' = [opState EXCEPT ![t] =
                     [pc |-> "getSimilarStyles", style |-> store[taskStyle[t]]]]
              /\ OperationGoesOn
           \/ LoopResumes(t, UpstreamError)
        /\ UNCHANGED <<observerVars, store, assigned, allocVars, requestVars, tokenVars>>
        /\ WrapperUpdates

\* lines 277-304: getSimilarStyles, then generateStyleCode on what the two
\* reads returned; a null result ends the operation as skipped
GetSimilarStyles ==
    \E t \in running :
        /\ AssignmentStep(t, "getSimilarStyles")
        /\ \/ LET st == opState[t].style
                  peers == getSimilarStyles(store, st.Season.Id,
                                            st.ProductSubSubCategory.Id)
                  gen == generateStyleCode(st, peers)
              IN  IF gen.isNull
                  THEN LoopResumes(t, [kind |-> "ok",
                                       value |-> [success |-> TRUE,
                                                  styleId |-> taskStyle[t],
                                                  skipped |-> TRUE,
                                                  currentStyleCode |-> st.StyleCode]])
                  ELSE /\ opState' = [opState EXCEPT ![t] =
                              [pc |-> "updateStyle", style |-> st,
                               generated |-> gen, sequence |-> NextSequence(peers),
                               updated |-> FALSE, applied |-> FALSE]]
                       /\ OperationGoesOn
           \/ LoopResumes(t, UpstreamError)
        /\ UNCHANGED <<observerVars, store, assigned, allocVars, requestVars, tokenVars>>
        /\ WrapperUpdates

\* the STYLE table after the PATCH of task t was applied
Patched(t) ==
    [store EXCEPT
        ![taskStyle[t]].StyleCode = opState[t].generated.StyleCode,
        ![taskStyle[t]].PatternSpecNumber = opState[t].generated.PatternSpecNumber]

\* lines 306-307 and 171-199: the PATCH is answered 204 and updateStyle
\* returns true; or it is answered with another 2xx status and updateStyle
\* returns false, the request applied or not; or it throws.  The boolean is
\* not looked at by line 307.
UpdateStyle ==
    \E t \in running :
        /\ AssignmentStep(t, "updateStyle")
        /\ \/ \E status204 \in BOOLEAN, applied \in BOOLEAN :
                /\ status204 => applied
                /\ store' = IF applied THEN Patched(t) ELSE store
                /\ assigned' = IF applied
                               THEN assigned \cup
                                      {[styleId |-> taskStyle[t],
                                        partition |-> Partition(store[taskStyle[t]]),
                                        sequence |-> opState[t].sequence]}
                               ELSE assigned
                /\ opState' = [opState EXCEPT ![t].pc = "syncToSearchData",
                                              ![t].updated = status204,
                                              ![t].applied = applied]
                /\ OperationGoesOn
           \/ /\ LoopResumes(t, UpstreamError)
              /\ UNCHANGED <<store, assigned>>
        /\ UNCHANGED <<observerVars, allocVars, requestVars, tokenVars>>
        /\ WrapperUpdates

\* lines 309-330 and 206-259: the notification succeeds, or fails inside its
\* try block (false), or the token for it cannot be had (line 207, thrown)
SyncToSearchData ==
    \E t \in running :
        /\ AssignmentStep(t, "syncToSearchData")
        /\ \/ \E syncSuccess \in BOOLEAN :
                  LoopResumes(t, [kind |-> "ok",
                                  value |-> [success |-> TRUE,
                                             styleId |-> taskStyle[t],
                                             skipped |-> FALSE,
                                             newStyleCode |-> opState[t].generated.StyleCode,
                                             syncedToSearchData |-> syncSuccess]])
           \/ LoopResumes(t, TokenError)
        /\ UNCHANGED <<observerVars, store, assigned, allocVars, requestVars, tokenVars>>
        /\ WrapperUpdates

\* server.js 117-121 (sync), 346-349 (batch), testStyleCode.js 27-30
AddAssignment ==
    \E sid \in StyleIds :
        /\ AddTask(sid)
        /\ UNCHANGED <<observerVars, store, assigned, jobVars, allocVars, requestVars, tokenVars>>

\* a slip at server.js 350-354: the handles are given to Promise.all without
\* their catch, so that one rejection rejects the whole
BatchResponseNoCatch(b) ==
    IF \E i \in DOMAIN b : handle[b[i]].state = "rejected"
    THEN [status |-> 500, success |-> FALSE]
    ELSE [status |-> 200, success |-> TRUE,
          results |-> [i \in DOMAIN b |-> handle[b[i]].value]]

\* server.js 350-354: the entry of a settled handle, the operation's result
\* or what the catch makes of its error
BatchEntry(t) ==
    IF handle[t].state = "resolved" THEN handle[t].value
    ELSE [styleId |-> taskStyle[t], success |-> FALSE,
          error |-> MessageOf(handle[t].value)]

\* server.js 357-381: the answer once Promise.all has settled; a catch that
\* is handed a value without `message` throws, which rejects Promise.all
BatchResponse(b) ==
    IF \E i \in DOMAIN b :
           handle[b[i]].state = "rejected" /\ ~HasMessage(handle[b[i]].value)
    THEN [status |-> 500, success |-> FALSE]
    ELSE [status |-> 200, success |-> TRUE,
          results |-> [i \in DOMAIN b |-> BatchEntry(b[i])]]

\* the styleIds arrays of n elements.  The records of the table a batch runs
\* on are alike but for their id, so an array stands for every array with
\* the same pattern of repeats: its first id is 1 and each later id is at
\* most one more than some id before it.
BatchInputs(n) ==
    { sids \in [1..n -> StyleIds] :
        /\ sids[1] = 1
        /\ \A i \in 2..n : \E j \in 1..(i - 1) : sids[i] <= sids[j] + 1 }

\* server.js 319-355: POST /api/stylecode/assign/batch up to its await
AddBatch ==
    \E n \in 1..MaxTasks :
      \E sids \in BatchInputs(n) :
        /\ batch = <<>>
        /\ AddTasks(sids)
        /\ batch' = [i \in 1..n |-> submitted + i]
        /\ UNCHANGED <<resetAt, response>>
        /\ UNCHANGED <<store, assigned, jobVars, allocVars, requestVars, tokenVars>>

\* server.js 357-371: every handle of the batch has settled
BatchResponds ==
    /\ batch # <<>>
    /\ response = NoResponse
    /\ \A i \in DOMAIN batch : handle[batch[i]] # Pending
    /\ response' = BatchResponse(batch)
    /\ UNCHANGED <<resetAt, batch>>
    /\ UNCHANGED <<queueVars, callerVars, unitVars, jobVars, allocVars, requestVars, tokenVars>>

InitAssign ==
    /\ QueueIdle /\ JobsIdle /\ RequestsIdle /\ TokenIdle /\ AllocIdle
    /\ taskStyle = [t \in Tasks |-> 0]
    /\ opState = [t \in Tasks |-> [pc |-> "none"]]
    /\ store \in InitialStores
    /\ assigned = {}

NextAssign ==
    \/ AddAssignment
    \/ GetStyleDetails
    \/ GetSimilarStyles
    \/ UpdateStyle
    \/ SyncToSearchData

\* assignment requests through the queue, clear() not called
SpecAssign == InitAssign /\ [][NextAssign]_vars

NextBatch ==
    \/ AddBatch
    \/ GetStyleDetails
    \/ GetSimilarStyles
    \/ UpdateStyle
    \/ SyncToSearchData
    \/ BatchResponds

\* a table whose records are alike: one brand, season and category
InitBatch ==
    /\ InitAssign
    /\ \A id \in StyleIds :
           /\ Partition(store[id]) = <<1, 1>>
           /\ Len(FixedPrefix(store[id])) = FIXED_PREFIX_LENGTH

\* one batch request through the queue, clear() not called
SpecBatch == InitBatch /\ [][NextBatch]_vars

\* the request bodies: no field, a falsy StyleId, an unparsable one, a
\* number, a falsy StyleId beside a styleId in the PLM format, and a styleId
\* that starts with digits
Bodies ==
    { [StyleId |-> Undefined, styleId |-> Undefined],
      [StyleId |-> Num(0), styleId |-> Undefined],
      [StyleId |-> Str(<<"a", "b", "c">>), styleId |-> Undefined],
      [StyleId |-> Num(1), styleId |-> Undefined],
      [StyleId |-> Str(<<>>),
       styleId |-> Str(<<"S", "t", "y", "l", "e", "I", "d", " ", "e", "q", " ", "2">>)],
      [StyleId |-> Undefined, styleId |-> Str(<<"1", "x">>)] }

\* server.js 100 and 151: req.body.StyleId || req.body.styleId
StyleIdInput(body) == IF TruthyValue(body.StyleId) THEN body.StyleId ELSE body.styleId

\* server.js 100-101 and 151-152: what the handler makes of each body
Requests ==
    { [received |-> StyleIdInput(body), styleId |-> parseStyleId(StyleIdInput(body))] :
        body \in Bodies }

\* server.js 104-110 and 155-161: the answer 400, nothing else is done
BadRequest(endpoint, rq) ==
    /\ lastRequest' = [endpoint |-> endpoint, received |-> rq.received, status |-> 400]
    /\ UNCHANGED <<queueVars, callerVars, observerVars, unitVars, jobVars, allocVars,
                   taskJob, tokenVars>>

\* server.js 97-138: POST /api/stylecode/assign up to its await; the answer
\* follows the handle
AssignSync ==
    \E rq \in Requests :
        IF Rejects(rq.styleId)
        THEN BadRequest("assign", rq)
        ELSE /\ submitted < MaxRequests
             /\ AddTask(rq.styleId.num)
             /\ lastRequest' = [endpoint |-> "assign", received |-> rq.received,
                                status |-> 0, task |-> submitted + 1]
             /\ UNCHANGED <<observerVars, store, assigned, jobVars, allocVars,
                            taskJob, tokenVars>>

\* server.js 148-211: POST /api/stylecode/assign/async: the job is created
\* (169), the wrapper is handed to addTask (172-188), which may start it at
\* once, and the answer is sent (191-201)
AssignAsync ==
    \E rq \in Requests :
        IF Rejects(rq.styleId)
        THEN BadRequest("assign/async", rq)
        ELSE LET job == createJob(rq.styleId.num)
                 tj == [taskJob EXCEPT ![submitted + 1] = job.id]
             IN  /\ submitted < MaxRequests
                 /\ created < MaxJobs
                 /\ AddTask(rq.styleId.num)
                 /\ taskJob' = tj
                 /\ created' = job.id
                 /\ jobOrder' = job.jobOrder
                 /\ jobs' = WrapperUpdated(job.jobs, tj)
                 /\ lastRequest' = [endpoint |-> "assign/async",
                                    received |-> rq.received,
                                    status |-> 200, task |-> submitted + 1,
                                    jobId |-> job.id]
                 /\ UNCHANGED <<now, updates, lastCall>>
                 /\ UNCHANGED <<observerVars, store, assigned, allocVars, tokenVars>>

\* what the caller who submitted task t is answered: on the async path the
\* answer of server.js 191-201, whatever becomes of the unit (its rejection
\* ends in the catch of 185-188); on the sync path the result (123-127) or
\* the error (129-137) once the handle has settled
Answer(t) ==
    IF taskJob[t] # 0
    THEN [status |-> 200, success |-> TRUE, jobId |-> taskJob[t]]
    ELSE IF handle[t].state = "pending" THEN [status |-> 0]
    ELSE IF handle[t].state = "resolved"
    THEN [status |-> 200, success |-> TRUE, data |-> handle[t].value]
    ELSE [status |-> 500, success |-> FALSE, error |-> MessageOf(handle[t].value)]

InitAsync == InitBatch

NextAsync ==
    \/ AssignSync
    \/ AssignAsync
    \/ GetStyleDetails
    \/ GetSimilarStyles
    \/ UpdateStyle
    \/ SyncToSearchData

\* the two assignment endpoints and the units they enqueue, clear() not called
SpecAsync == InitAsync /\ [][NextAsync]_vars

\* the same with clear() called at any moment
NextAsyncClear == NextAsync \/ Clear

SpecAsyncClear == InitAsync /\ [][NextAsyncClear]_vars

\* what processStyleCodeAssignment ends with: a result object, or an Error
\* of the remote service
UnitOutcomes == {[kind |-> "ok", value |-> "r1"], UpstreamError, TokenError}

\* server.js 173-183 and plmService.js 267-340: the unit of an async task
\* from its first request to its end, taken as one step; the wrapper
\* records the end and the loop resumes
AsyncUnitEnds ==
    \E t \in running, out \in UnitOutcomes :
        /\ taskJob[t] # 0
        /\ LoopResumes(t, out)
        /\ UNCHANGED <<observerVars, store, assigned, allocVars, requestVars, tokenVars>>
        /\ WrapperUpdates

NextAsyncLive == AssignAsync \/ AsyncUnitEnds \/ Clear

\* async requests, the ends of their units and clear(), when every unit the
\* queue has started settles in the end
SpecAsyncLive == InitAsync /\ [][NextAsyncLive]_vars /\ WF_vars(AsyncUnitEnds)

\* the input of a request is missing: no field holds a value
Missing(input) == input.type = "undefined" \/ (input.type = "string" /\ input.str = <<>>)

AsyncTasks == {t \in Tasks : taskJob[t] # 0}

\* C27: for every async assignment request the job is created in status
\* pending before the unit is enqueued, becomes processing when the queue
\* starts its unit, and becomes completed with the result or failed with the
\* error message when the unit ends; the job's terminal status is recorded
\* before the unit's queue handle settles, and the failure is not delivered
\* to the submitting caller.
C27_AsyncJobLifecycle ==
    \A t \in AsyncTasks :
        LET job == jobs[taskJob[t]]
        IN  /\ job # NoJob
            /\ job.payload = taskStyle[t]
            /\ (\E i \in DOMAIN queue : queue[i] = t)
                   => job.status = "pending" /\ job.startedAt = NullDate
            /\ t \in running => job.status = "processing"
            /\ opOutcome[t].kind = "ok"
                   => /\ job.status = "completed"
                      /\ job.result = ResultOf(t)
            /\ opOutcome[t].kind = "err"
                   => /\ job.status = "failed"
                      /\ job.error = MessageOf(opOutcome[t].value)
            /\ handle[t].state # "pending" => Terminal(job.status)
            /\ Answer(t).status = 200 /\ Answer(t).jobId = taskJob[t]

\* one async unit has failed and its job says so, the next is running
C27_Witness ==
    \E t, u \in AsyncTasks :
        /\ handle[t].state = "rejected"
        /\ jobs[taskJob[t]].status = "failed"
        /\ jobs[taskJob[t]].error = "Request failed"
        /\ u \in running
        /\ jobs[taskJob[u]].status = "processing"


\* the jobs in status processing
ProcessingJobs == {j \in JobIds : jobs[j].status = "processing"}

\* C32: at most one job has status processing at any time, and a job is in
\* status processing only while its own unit of work is the one the queue is
\* executing, under any interleaving of async assignment requests, operation
\* completions and queue clear calls.
C32_OneJobProcessing ==
    /\ Cardinality(ProcessingJobs) <= 1
    /\ \A j \in ProcessingJobs :
           \E t \in AsyncTasks : taskJob[t] = j /\ running = {t}

\* the part of it that clear() leaves standing: the unit of a job in status
\* processing is among the running ones
C32_ProcessingJobsAreRunning ==
    \A j \in ProcessingJobs :
        \E t \in AsyncTasks : taskJob[t] = j /\ t \in running

\* C33: every job created by an async assignment request eventually reaches
\* completed or failed, provided every operation eventually settles, under
\* any interleaving of async requests, operation completions and queue clear
\* calls; no job stays pending or processing forever.
C33_JobsReachTerminal ==
    \A t \in Tasks :
        (taskJob[t] # 0) ~> (taskJob[t] # 0 /\ opOutcome[t].kind # "none"
                                /\ (jobs[taskJob[t]] = NoJob
                                       \/ Terminal(jobs[taskJob[t]].status)))

\* the same in the behaviours in which clear() removes no task from the queue
C33_TerminalWhenNothingDropped ==
    [](dropped = {}) => C33_JobsReachTerminal

(***************************************************************************)
(* Properties of the queue.  Spec has every entry point of QueueService;   *)
(* SpecNoClear leaves clear() out.                                         *)
(***************************************************************************)
Count(seq, x) == Cardinality({i \in DOMAIN seq : seq[i] = x})

InOrder(seq) == \A i \in DOMAIN seq : seq[i] = i

\* C1: for any addTask submissions arriving at any moments, the number of
\* operations started by the queue and not yet settled never exceeds 1.
C1_AtMostOneInFlight == Cardinality(running) <= 1

\* one operation has settled, one is in flight, one is waiting
C1_Witness ==
    /\ Cardinality(running) = 1
    /\ Len(queue) >= 1
    /\ Len(settleOrder) >= 1

\* C2: operations start in submission order and their handles settle in
\* submission order: none starts or settles before one submitted earlier.
C2_Fifo ==
    /\ InOrder(startOrder)
    /\ InOrder(settleOrder)
    /\ Len(settleOrder) <= Len(startOrder)

\* three submissions, the later ones made while the first was running, all
\* settled, one of them by a failure
C2_Witness ==
    /\ settleOrder = <<1, 2, 3>>
    /\ handle[2].state = "rejected"
    /\ handle[3].state = "resolved"

\* C3: no operation runs concurrently with another operation of the same
\* queue, under any sequence of addTask, clear and completions.
C3_NoConcurrentOperations == \A a, b \in running : a = b

\* C5: a failing operation, whatever it throws, does not halt the queue: when
\* no operation is in flight after a failure, nothing is left pending and the
\* draining flag is down, so that the next addTask starts draining; and the
\* failed operation's handle is rejected with its error.
C5_FailureIsolation ==
    \A t \in Tasks :
        opOutcome[t].kind = "err"
            => /\ handle[t] = Rejected(opOutcome[t].value)
               /\ running = {} => (queue = <<>> /\ ~isProcessing)

\* the same for the operations that throw a value with a `message`
C5_IsolationOfErrorObjects ==
    (\A u \in Tasks : opOutcome[u].kind = "err" => HasMessage(opOutcome[u].value))
        => C5_FailureIsolation

\* C6: every operation is invoked at most once and its handle is settled
\* exactly once, resolved with its own result or rejected with its own error.
C6_ExactlyOnce ==
    \A t \in Tasks :
        /\ Count(startOrder, t) <= 1
        /\ Count(settleOrder, t) <= 1
        /\ opOutcome[t].kind = "ok"
               => (handle[t] = Resolved(opOutcome[t].value) /\ Count(settleOrder, t) = 1)
        /\ opOutcome[t].kind = "err"
               => (handle[t] = Rejected(opOutcome[t].value) /\ Count(settleOrder, t) = 1)
        /\ handle[t] # Pending => opOutcome[t] # NotEnded

\* the same for the operations that throw a value with a `message`
C6_ExactlyOnceForErrorObjects ==
    (\A u \in Tasks : opOutcome[u].kind = "err" => HasMessage(opOutcome[u].value))
        => C6_ExactlyOnce

\* C26: provided every operation eventually settles and the queue is not
\* cleared, every submitted task is eventually executed and its handle
\* eventually settles, and the queue eventually returns to idle (draining
\* flag false, no pending items); a task is never left pending in an idle
\* queue.
C26_QueueLiveness ==
    /\ \A t \in Tasks :
           (submitted >= t) ~> (Count(startOrder, t) = 1 /\ handle[t] # Pending)
    /\ []<>(~isProcessing /\ queue = <<>>)
    /\ [](~isProcessing => queue = <<>>)

\* the same when no operation throws a value without a `message`
C26_LivenessForErrorObjects ==
    [](\A u \in Tasks : opOutcome[u].kind = "err" => HasMessage(opOutcome[u].value))
        => C26_QueueLiveness

\* C30: while an operation started by the queue has not settled, no
\* later-submitted task is started, for any number of further addTask calls.
C30_StallWhileUnsettled ==
    [][(running # {} /\ running \subseteq running') => startOrder' = startOrder]_vars

\* two tasks were submitted after the first was started; it has not settled
\* and they wait
C30_Witness ==
    /\ running = {1}
    /\ queue = <<2, 3>>
    /\ startOrder = <<1>>
    /\ settleOrder = <<>>

\* the queue has drained: nothing is pending and nothing is in flight
Drained == queue = <<>> /\ running = {}

\* C16: the counters are exact, counting since the last resetStats: total is
\* the number of submitted tasks, completed the number of operations that
\* ended successfully, failed the number that ended with an error; once the
\* queue has drained, inProgress is 0 and completed + failed = total.
C16_CountersExact ==
    /\ stats.total = submitted - resetAt.submitted
    /\ stats.completed = Ended("ok") - resetAt.completed
    /\ stats.failed = Ended("err") - resetAt.failed
    /\ Drained => (stats.inProgress = 0
                      /\ stats.completed + stats.failed = stats.total)

\* the same when the last resetStats was not called with an operation in flight
C16_ExactWhenResetWhileIdle == resetAt.inFlight = 0 => C16_CountersExact

\* C19: clear() drops every pending item and sets the draining flag to idle;
\* the operations of the dropped items are never run and their handles are
\* never resolved or rejected afterwards.
C19_ClearDropsPending ==
    /\ [](\A t \in dropped :
             /\ Count(startOrder, t) = 0
             /\ Count(settleOrder, t) = 0
             /\ Count(queue, t) = 0
             /\ t \notin running
             /\ handle[t] = Pending
             /\ opOutcome[t] = NotEnded)
    /\ [][dropped' # dropped
              => /\ queue' = <<>>
                 /\ ~isProcessing'
                 /\ dropped' = dropped \cup {queue[i] : i \in DOMAIN queue}]_vars

\* a task was dropped by clear(), a task submitted after it has run and
\* settled, and the dropped one is still unsettled
C19_Witness ==
    /\ 2 \in dropped
    /\ handle[2] = Pending
    /\ handle[3] # Pending
    /\ Drained

\* C31: the inProgress counter is 0 or 1 in every reachable state, and never
\* negative, under any interleaving of addTask, operation completions and
\* failures, clear and resetStats.
C31_InProgressIsZeroOrOne == stats.inProgress \in {0, 1}

\* the same when clear() is not called and the last resetStats found no
\* operation in flight
C31_ZeroOrOneWhenResetWhileIdle ==
    resetAt.inFlight = 0 => C31_InProgressIsZeroOrOne

(***************************************************************************)
(* Properties of the assignment operations, checked under SpecAssign.      *)
(***************************************************************************)
\* C4: no two distinct records of the same partition are ever assigned the
\* same sequence number, for any assignment requests run through the queue.
C4_UniqueSequences ==
    \A a, b \in assigned :
        (a.styleId # b.styleId /\ a.partition = b.partition)
            => a.sequence # b.sequence

\* the same for the tables whose records all give a prefix of 9 characters
C4_UniqueWhenPrefixIsFull ==
    (\A id \in StyleIds : Len(FixedPrefix(store[id])) = FIXED_PREFIX_LENGTH)
        => C4_UniqueSequences

\* C15: a batch yields one result entry per submitted operation, in input
\* order; an operation that throws yields a failure entry carrying its
\* message, the other entries are the successes of their own operations, and
\* the batch as a whole does not fail.
C15_BatchIsolation ==
    response # NoResponse
        => /\ response.status = 200
           /\ response.success
           /\ DOMAIN response.results = DOMAIN batch
           /\ \A i \in DOMAIN batch :
                  LET t == batch[i]
                      entry == response.results[i]
                  IN  /\ entry.styleId = taskStyle[t]
                      /\ opOutcome[t].kind = "err"
                             => /\ entry.success = FALSE
                                /\ entry.error = MessageOf(opOutcome[t].value)
                      /\ opOutcome[t].kind = "ok"
                             => /\ entry = opOutcome[t].value
                                /\ entry.success = TRUE

\* three operations of which the second throws: success, failure with its
\* message, success, and the counters say completed = 2, failed = 1
C15_Witness ==
    /\ response # NoResponse
    /\ Len(batch) = 3
    /\ response.results[1].success = TRUE
    /\ response.results[2].success = FALSE
    /\ response.results[2].error = "Request failed"
    /\ response.results[3].success = TRUE
    /\ stats.completed = 2
    /\ stats.failed = 1

\* the assignment operations that have ended
EndedAssignments == {t \in Tasks : taskStyle[t] # 0 /\ opOutcome[t].kind # "none"}

\* the operation of task t ended by throwing e
FailedWith(t, e) == opOutcome[t].kind = "err" /\ opOutcome[t].value = e.value

\* the handle of task t was resolved with the operation's result, or
\* rejected with what the operation threw
HandleFollows(t) ==
    IF opOutcome[t].kind = "ok"
    THEN handle[t].state = "resolved" /\ handle[t].value = opOutcome[t].value
    ELSE handle[t].state = "rejected" /\ handle[t].value = opOutcome[t].value

\* C17: in an assignment operation whose record update succeeded, a failure
\* of the notification step, for any way that step fails, does not fail the
\* operation: it completes successfully and the failure shows only as
\* syncedToSearchData = false in the result.
C17_BestEffortNotification ==
    \A t \in EndedAssignments :
        (opState[t].pc = "syncToSearchData" /\ opState[t].updated)
            => /\ opOutcome[t].kind = "ok"
               /\ HandleFollows(t)
               /\ opOutcome[t].value.syncedToSearchData \in BOOLEAN

\* the same for the failures of the notification request itself, which
\* happen inside the try block of syncToSearchData
C17_RequestFailureTolerated ==
    \A t \in EndedAssignments :
        (opState[t].pc = "syncToSearchData" /\ opState[t].updated
             /\ ~FailedWith(t, TokenError))
            => /\ opOutcome[t].kind = "ok"
               /\ HandleFollows(t)
               /\ opOutcome[t].value.syncedToSearchData \in BOOLEAN

\* the failures of the three steps are thrown on: the operation ends with
\* the step's error and its handle is rejected with it
ThrownFailuresPropagate ==
    \A t \in EndedAssignments :
        /\ HandleFollows(t)
        /\ opState[t].pc \in {"getStyleDetails", "updateStyle"}
               => FailedWith(t, UpstreamError)
        /\ (opState[t].pc = "getSimilarStyles" /\ opOutcome[t].kind = "err")
               => FailedWith(t, UpstreamError)

\* C18: if the record fetch, the peer fetch or the record update fails, the
\* operation fails with that error and its handle is rejected with it; an
\* operation is reported as a successful assignment with a new code only if
\* the record update succeeded.
C18_UpstreamFailuresPropagate ==
    /\ ThrownFailuresPropagate
    /\ \A t \in EndedAssignments :
           (opOutcome[t].kind = "ok" /\ ~opOutcome[t].value.skipped)
               => opState[t].updated

\* the assignment operations that have ended after their update was applied
Assigners == {t \in EndedAssignments : opState[t].pc = "syncToSearchData"
                                          /\ opState[t].applied}

\* between the operations a and b no operation changed a record of the
\* partition of b's record
NoAssignmentBetween(a, b) ==
    \A u \in Assigners :
        (a < u /\ u < b)
            => Partition(store[taskStyle[u]]) # Partition(store[taskStyle[b]])

\* C28: after an assignment operation gave record r a new code, a second
\* assignment operation for r, with no other assignment in r's partition in
\* between, is skipped: r's code is unchanged and no update is sent.
C28_RepeatIsSkipped ==
    \A a \in Assigners, b \in EndedAssignments :
        (a < b /\ taskStyle[a] = taskStyle[b] /\ NoAssignmentBetween(a, b)
             /\ opState[b].pc # "getStyleDetails" /\ opOutcome[b].kind = "ok")
            => /\ opOutcome[b].value.skipped
               /\ opOutcome[b].value.currentStyleCode = opState[a].generated.StyleCode
               /\ opState[b].pc = "getSimilarStyles"

\* the same for the tables whose records all give a prefix of 9 characters
C28_SkippedWhenPrefixIsFull ==
    (\A id \in StyleIds : Len(FixedPrefix(store[id])) = FIXED_PREFIX_LENGTH)
        => \A a \in Assigners, b \in EndedAssignments :
               (a < b /\ taskStyle[a] = taskStyle[b] /\ NoAssignmentBetween(a, b)
                    /\ opState[b].pc # "getStyleDetails")
                   => \/ opOutcome[b].kind = "err" /\ opState[b].pc = "getSimilarStyles"
                      \/ /\ opOutcome[b].kind = "ok"
                         /\ opOutcome[b].value.skipped
                         /\ opOutcome[b].value.currentStyleCode
                                = opState[a].generated.StyleCode
                         /\ opState[b].pc = "getSimilarStyles"

(***************************************************************************)
(* TokenService (src/tokenService.js).  Time is counted in units of five   *)
(* minutes on the clock `now`; a token is the number of its issue.         *)
(***************************************************************************)

\* line 61: bufferTime, five minutes
bufferTime == 1

\* line 101: the lifetime taken when the answer has no expires_in, one hour
DefaultExpiresIn == 3

\* expires_in in the provider's answer: absent (0), or a lifetime
ExpiresIn == {0, 1, 2}

\* token_type in the provider's answer
TokenTypes == {"undefined", "Bearer"}

\* a slip at lines 60-64: the buffer is not subtracted
isTokenValidNoBuffer ==
    IF tokenExpiry = 0 THEN FALSE
    ELSE now < tokenExpiry

\* lines 55-65: isTokenValid()
isTokenValid ==
    IF tokenExpiry = 0 THEN FALSE
    ELSE now < tokenExpiry - bufferTime

\* the calls made so far
TokenCalls == Len(tokenLog) + Len(fetching) + revoking

\* what a call found in the cache when it was made
CallAt(via) == [via |-> via, at |-> now, hadToken |-> accessToken,
                hadExpiry |-> tokenExpiry]

\* the entry of a call that has returned: how, with which token (0: it
\* threw), and what the cache held then
Returned(call, kind, token, tok, exp) ==
    [kind |-> kind, token |-> token, call |-> call, returnedAt |-> now,
     cachedToken |-> tok, cachedExpiry |-> exp]

\* lines 40-49: getAccessToken() to its return or to the await in
\* fetchNewToken (line 89)
GetAccessToken ==
    /\ TokenCalls < MaxTokenCalls
    /\ IF accessToken # 0 /\ isTokenValid
       THEN /\ tokenLog' = Append(tokenLog,
                   Returned(CallAt("getAccessToken"), "cached", accessToken,
                            accessToken, tokenExpiry))
            /\ UNCHANGED fetching
       ELSE /\ fetching' = Append(fetching, CallAt("getAccessToken"))
            /\ UNCHANGED tokenLog
    /\ UNCHANGED <<accessToken, tokenExpiry, tokenType, revoking, issued>>
    /\ UNCHANGED <<queueVars, callerVars, observerVars, unitVars, jobVars, allocVars,
                   requestVars>>

\* lines 89-123: the provider answers one of the waiting calls, with a token
\* (lines 96-110) or not (lines 111-123); token_type at line 98, expires_in
\* at lines 101-102
FetchNewTokenEnds ==
    \E i \in DOMAIN fetching :
        /\ fetching' = SubSeq(fetching, 1, i - 1) \o SubSeq(fetching, i + 1, Len(fetching))
        /\ \/ \E expires_in \in ExpiresIn, token_type \in TokenTypes :
                  LET expiresIn == IF expires_in # 0 THEN expires_in
                                   ELSE DefaultExpiresIn
                  IN  /\ issued' = issued + 1
                      /\ accessToken' = issued + 1
                      /\ tokenType' = IF token_type # "undefined" THEN token_type
                                      ELSE "Bearer"
                      /\ tokenExpiry' = now + expiresIn
                      /\ tokenLog' = Append(tokenLog,
                             Returned(fetching[i], "fetched", issued + 1,
                                      issued + 1, now + expiresIn))
           \/ /\ tokenLog' = Append(tokenLog,
                     Returned(fetching[i], "failed", 0, accessToken, tokenExpiry))
              /\ UNCHANGED <<accessToken, tokenExpiry, tokenType, issued>>
        /\ UNCHANGED revoking
        /\ UNCHANGED <<queueVars, callerVars, observerVars, unitVars, jobVars,
                       allocVars, requestVars>>

\* lines 192-198: the cache is cleared and getAccessToken, finding it empty,
\* asks the provider
ClearAndFetch ==
    /\ accessToken' = 0
    /\ tokenExpiry' = 0
    /\ tokenType' = "null"
    /\ fetching' = Append(fetching, [CallAt("refreshToken") EXCEPT
                                        !.hadToken = 0, !.hadExpiry = 0])

\* lines 180-198: refreshToken() to its first await, the revocation when a
\* token is cached (line 186), the new request when none is
RefreshToken ==
    /\ TokenCalls < MaxTokenCalls
    /\ IF accessToken # 0
       THEN /\ revoking' = revoking + 1
            /\ UNCHANGED <<accessToken, tokenExpiry, tokenType, fetching>>
       ELSE /\ ClearAndFetch
            /\ UNCHANGED revoking
    /\ UNCHANGED <<issued, tokenLog>>
    /\ UNCHANGED <<queueVars, callerVars, observerVars, unitVars, jobVars, allocVars,
                   requestVars>>

\* lines 186-198: the revocation has succeeded or failed; either way the
\* cache is cleared (lines 166-168, 193-195) and a new token is asked for
RevokeEnds ==
    /\ revoking > 0
    /\ revoking' = revoking - 1
    /\ ClearAndFetch
    /\ UNCHANGED <<issued, tokenLog>>
    /\ UNCHANGED <<queueVars, callerVars, observerVars, unitVars, jobVars, allocVars,
                   requestVars>>

InitToken == QueueIdle /\ UnitsIdle /\ JobsIdle /\ RequestsIdle /\ TokenIdle /\ AllocIdle

NextToken ==
    \/ GetAccessToken
    \/ FetchNewTokenEnds
    \/ RefreshToken
    \/ RevokeEnds
    \/ ClockTicks

SpecToken == InitToken /\ [][NextToken]_vars

\* a token is cached and the time t is more than five minutes before its expiry
InWindow(tok, exp, t) == tok # 0 /\ exp # 0 /\ exp - t > bufferTime

\* C25: getAccessToken returns the cached token without contacting the
\* provider whenever a token is cached and the current time is more than 5
\* minutes before its expiry, so two consecutive calls inside that window
\* return the same token; otherwise it fetches a new token and caches it
\* with its expiry.
C25_TokenCache ==
    /\ \A i \in DOMAIN tokenLog :
          LET e == tokenLog[i]
          IN  /\ e.call.via = "getAccessToken"
                     => (InWindow(e.call.hadToken, e.call.hadExpiry, e.call.at)
                             <=> e.kind = "cached")
              /\ e.kind = "cached"
                     => e.token = e.call.hadToken /\ e.returnedAt = e.call.at
              /\ e.kind = "fetched"
                     => /\ e.token # e.call.hadToken
                        /\ e.cachedToken = e.token
                        /\ e.cachedExpiry > e.returnedAt
              /\ (i > 1 /\ e.kind = "cached" /\ tokenLog[i - 1].kind # "failed")
                     => e.token = tokenLog[i - 1].token
    /\ \A i \in DOMAIN fetching :
          ~InWindow(fetching[i].hadToken, fetching[i].hadExpiry, fetching[i].at)
    /\ (tokenLog # <<>> /\ tokenLog[Len(tokenLog)].kind = "fetched")
           => \/ accessToken = 0 /\ tokenExpiry = 0
              \/ /\ accessToken = tokenLog[Len(tokenLog)].token
                 /\ tokenExpiry = tokenLog[Len(tokenLog)].cachedExpiry

\* a token was fetched and the next two calls, at different times inside its
\* window, were answered from the cache
C25_Witness ==
    /\ Len(tokenLog) = 3
    /\ tokenLog[1].kind = "fetched"
    /\ tokenLog[2].kind = "cached"
    /\ tokenLog[3].kind = "cached"
    /\ tokenLog[3].call.at > tokenLog[2].call.at

\* a call that found a token cached less than five minutes before its expiry
\* has fetched another
C25_WitnessRefetch ==
    \E i \in DOMAIN tokenLog :
        /\ tokenLog[i].kind = "fetched"
        /\ tokenLog[i].call.via = "getAccessToken"
        /\ tokenLog[i].call.hadToken # 0

(***************************************************************************)
(* Properties of JobService, checked under SpecJobs.                       *)
(***************************************************************************)
\* C10: completedAt is set exactly once: once a job has a completedAt, no
\* later updateJobStatus call on that job changes it.
C10_CompletedAtSetOnce ==
    [][\A j \in JobIds :
          (jobs[j] # NoJob /\ jobs[j].completedAt # NullDate /\ jobs'[j] # NoJob)
              => jobs'[j].completedAt = jobs[j].completedAt]_vars

\* the ids this.jobs has an entry for
Stored(js) == {j \in JobIds : js[j] # NoJob}

\* this step is a call updateJobStatus(j, status, ...)
UpdateCallOn(j, status) ==
    /\ updates' = updates + 1
    /\ lastCall'.op = "updateJobStatus"
    /\ lastCall'.id = j
    /\ lastCall'.status = status

\* C11: terminal states are final: once a job's status is completed or failed,
\* no later updateJobStatus call changes its status, result or error.
C11_TerminalIsFinal ==
    [][\A j \in JobIds :
          (jobs[j] # NoJob /\ Terminal(jobs[j].status) /\ jobs'[j] # NoJob)
              => /\ jobs'[j].status = jobs[j].status
                 /\ jobs'[j].result = jobs[j].result
                 /\ jobs'[j].error = jobs[j].error]_vars

\* C12: startedAt is set exactly once: a job is created with startedAt null,
\* the first updateJobStatus(id, 'processing') sets it to the time of that
\* call, every later update of the job, a second 'processing' included,
\* leaves it unchanged, and no other update sets it.
C12_StartedAtSetOnce ==
    [][/\ created' = created + 1 => jobs'[created'].startedAt = NullDate
       /\ \A j \in Stored(jobs) \cap Stored(jobs') :
             /\ jobs[j].startedAt # NullDate
                    => jobs'[j].startedAt = jobs[j].startedAt
             /\ (jobs[j].startedAt = NullDate /\ UpdateCallOn(j, "processing"))
                    => jobs'[j].startedAt = now
             /\ (jobs[j].startedAt = NullDate /\ ~UpdateCallOn(j, "processing"))
                    => jobs'[j].startedAt = NullDate]_vars

\* a job set to processing at time 1 and again at time 2 keeps startedAt = 1
C12_Witness ==
    /\ updates = 2
    /\ now = 2
    /\ lastCall.op = "updateJobStatus"
    /\ lastCall.id = 1
    /\ lastCall.status = "processing"
    /\ jobs[1] # NoJob
    /\ jobs[1].startedAt = 1
    /\ jobs[1].status = "processing"

\* C13: after every createJob the store is at or under the cap whenever
\* terminal jobs exist to evict: it holds more than maxJobHistory jobs only
\* if it contains no completed or failed job.
C13_RetentionBound ==
    [][created' = created + 1
          => (Cardinality(Stored(jobs')) > maxJobHistory
                 => \A j \in Stored(jobs') : ~Terminal(jobs'[j].status))]_vars

\* the same when the oldest jobs, as many as the store is over the cap, are
\* terminal: then the store is back at the cap
C13_BackAtCapWhenOldestAreTerminal ==
    [][(/\ created' = created + 1
        /\ \A i \in 1..(Len(jobOrder) + 1 - maxJobHistory) :
               Terminal(jobs[jobOrder[i]].status))
          => Cardinality(Stored(jobs')) <= maxJobHistory]_vars

\* C14: eviction never removes a non-terminal job: a job whose status is
\* pending or processing stays in the store, whatever its age and even if the
\* store exceeds the cap; the job createJob has just added stays as well.
C14_NonTerminalNeverEvicted ==
    [][/\ \A j \in Stored(jobs) :
              ~Terminal(jobs[j].status) => j \in Stored(jobs')
       /\ created' = created + 1 => created' \in Stored(jobs')]_vars

\* the store is over the cap after a createJob that found the oldest job
\* pending and a younger one completed
C14_Witness ==
    /\ lastCall.op = "createJob"
    /\ Cardinality(Stored(jobs)) > maxJobHistory
    /\ jobs[1] # NoJob /\ jobs[1].status = "pending"
    /\ jobs[2] # NoJob /\ jobs[2].status = "completed"

\* C20: updateJobStatus on an unknown job id is a no-op: it returns and leaves
\* every job in the store, and the set of stored ids, unchanged.
C20_UnknownIdIsNoOp ==
    [][\A j \in JobIds, status \in Statuses :
          (UpdateCallOn(j, status) /\ jobs[j] = NoJob)
              => /\ jobs' = jobs
                 /\ jobOrder' = jobOrder
                 /\ Stored(jobs') = Stored(jobs)]_vars

\* the last call was an update of an id the store has no entry for, while it
\* holds another job
C20_Witness ==
    /\ lastCall.op = "updateJobStatus"
    /\ jobs[lastCall.id] = NoJob
    /\ lastCall.status = "completed"
    /\ Stored(jobs) # {}

\* this step is a call updateJobStatus(j, status, data) on a stored job
UpdateOfStored(j, status) == UpdateCallOn(j, status) /\ jobs[j] # NoJob

\* C21: updateJobStatus(id, 'completed', data) stores data.result as the
\* job's result for every result value (null when data has none), and
\* updateJobStatus(id, 'failed', data) stores data.error, or a generic message
\* when data.error is absent; completed never sets error and failed never
\* sets result.
C21_TerminalData ==
    [][\A j \in JobIds :
          /\ UpdateOfStored(j, "completed")
                => /\ jobs'[j].result = IF lastCall'.data.result = "undefined"
                                        THEN "null" ELSE lastCall'.data.result
                   /\ jobs'[j].error = jobs[j].error
          /\ UpdateOfStored(j, "failed")
                => /\ jobs'[j].error = IF lastCall'.data.error = "undefined"
                                       THEN "Unknown error" ELSE lastCall'.data.error
                   /\ jobs'[j].result = jobs[j].result]_vars

\* the same for the values that are truthy or absent
C21_TruthyTerminalData ==
    [][\A j \in JobIds :
          /\ UpdateOfStored(j, "completed")
                => /\ lastCall'.data.result = "value" => jobs'[j].result = "value"
                   /\ lastCall'.data.result = "undefined" => jobs'[j].result = "null"
                   /\ jobs'[j].error = jobs[j].error
          /\ UpdateOfStored(j, "failed")
                => /\ lastCall'.data.error = "value" => jobs'[j].error = "value"
                   /\ lastCall'.data.error = "undefined"
                          => jobs'[j].error = "Unknown error"
                   /\ jobs'[j].result = jobs[j].result]_vars

\* C24: for a job that has been started, getJob returns a non-null duration
\* equal to completedAt minus startedAt, or now minus startedAt while it is
\* still running; for a job never started the duration is null; for an
\* unknown id getJob returns not-found.
C24_Duration ==
    \A j \in JobIds :
        IF jobs[j] = NoJob THEN getJob(j) = NotFound
        ELSE /\ getJob(j).found
             /\ getJob(j).job = jobs[j]
             /\ jobs[j].startedAt = NullDate => getJob(j).duration = NoDuration
             /\ (jobs[j].startedAt # NullDate /\ jobs[j].completedAt # NullDate)
                    => getJob(j).duration
                           = DurationText(jobs[j].completedAt - jobs[j].startedAt)
             /\ (jobs[j].startedAt # NullDate /\ jobs[j].completedAt = NullDate)
                    => getJob(j).duration = DurationText(now - jobs[j].startedAt)

\* the same when the duration is not 0 milliseconds
C24_NonZeroDuration ==
    \A j \in JobIds :
        IF jobs[j] = NoJob THEN getJob(j) = NotFound
        ELSE LET endTime == IF jobs[j].completedAt # NullDate
                            THEN jobs[j].completedAt ELSE now
             IN  /\ getJob(j).found
                 /\ getJob(j).job = jobs[j]
                 /\ jobs[j].startedAt = NullDate => getJob(j).duration = NoDuration
                 /\ (jobs[j].startedAt # NullDate /\ endTime # jobs[j].startedAt)
                        => getJob(j).duration = DurationText(endTime - jobs[j].startedAt)

\* C29: cleanupOldJobs removes a terminal job only when no older-created
\* terminal job remains in the store after it: every job it removes was
\* created before every terminal job it leaves.
C29_EvictionOrder ==
    [][\A v \in Stored(jobs) \ Stored(jobs') :
          \A r \in Stored(jobs') :
              Terminal(jobs'[r].status)
                  => /\ v < r
                     /\ jobs[v].createdAt <= jobs'[r].createdAt]_vars

\* the oldest of two completed jobs was evicted and the younger one stays
C29_Witness ==
    /\ lastCall.op = "createJob"
    /\ jobs[1] = NoJob
    /\ jobs[2] # NoJob /\ Terminal(jobs[2].status)
    /\ jobs[3] # NoJob

(***************************************************************************)
(* Properties of generateStyleCode, checked under SpecAlloc.               *)
(***************************************************************************)
\* the integers that parse out of the peers' codes
ParsedPeers(peers) ==
    { SequenceOf(peers[i].StyleCode).num :
        i \in { j \in DOMAIN peers : ~SequenceOf(peers[j].StyleCode).isNaN } }

SetMax(S) == CHOOSE x \in S : \A y \in S : y <= x

\* the largest integer parsed from the peers, 0 if none parses
LargestParsed(peers) ==
    IF ParsedPeers(peers) = {} THEN 0 ELSE SetMax(ParsedPeers(peers))

\* the largest of 0 and the integers parsed from the peers
LargestParsedOrZero(peers) == SetMax(ParsedPeers(peers) \cup {0})

CodeFor(st, n) == FixedPrefix(st) \o PadStart0(NumberToString(n), PadWidth)

PeerSuffixes(peers) ==
    [i \in DOMAIN peers |-> SubstringFrom(peers[i].StyleCode, FIXED_PREFIX_LENGTH)]

\* C7 as stated: when the short-circuit does not apply, the result is the
\* fixed prefix followed by maxSequence + 1, maxSequence being the largest
\* integer parsed from the peers' suffixes (0 if none).
C7_Original ==
    (calls > 0 /\ ~AlreadyAtMax(style, similarStyles))
        => /\ ~generated.isNull
           /\ generated.StyleCode = CodeFor(style, LargestParsed(similarStyles) + 1)

\* C7 amended: when the short-circuit does not apply, the result is the fixed
\* prefix followed by maxSequence + 1 padded to 3 digits, maxSequence being
\* the largest of 0 and the integers parsed from the peers' suffixes; the
\* returned sequence is greater than every peer's parsed sequence, and peers
\* 001, 003, 002 give suffix 004.
C7_MonotonicAllocation ==
    (calls > 0 /\ ~AlreadyAtMax(style, similarStyles))
        => /\ ~generated.isNull
           /\ generated.StyleCode = CodeFor(style, LargestParsedOrZero(similarStyles) + 1)
           /\ \A q \in ParsedPeers(similarStyles) :
                  LargestParsedOrZero(similarStyles) + 1 > q
           /\ PeerSuffixes(similarStyles)
                  = << <<"0", "0", "1">>, <<"0", "0", "3">>, <<"0", "0", "2">> >>
                => generated.StyleCode = FixedPrefix(style) \o <<"0", "0", "4">>

C7_Witness ==
    /\ calls > 0
    /\ PeerSuffixes(similarStyles)
           = << <<"0", "0", "1">>, <<"0", "0", "3">>, <<"0", "0", "2">> >>
    /\ style.StyleCode = <<>>
    /\ generated.StyleCode = FixedPrefix(style) \o <<"0", "0", "4">>

\* the target's own code parses, by the peers' rule, to maxSequence
TargetAtMax ==
    /\ ~SequenceOf(style.StyleCode).isNaN
    /\ SequenceOf(style.StyleCode).num = LargestParsedOrZero(similarStyles)

\* C8: whenever the target's own code parses to the maxSequence computed over
\* all peers, generateStyleCode returns null; a call changes neither the
\* target nor the peers, and a second call returns what the first returned.
C8_Idempotence ==
    /\ []((calls > 0 /\ TargetAtMax) => generated.isNull)
    /\ [][/\ style' = style
          /\ similarStyles' = similarStyles
          /\ (calls > 0 => generated' = generated)]_vars

C8_Witness ==
    /\ calls = 2
    /\ TargetAtMax
    /\ SequenceOf(style.StyleCode).num = 3
    /\ Len(similarStyles) = 3
    /\ generated.isNull

\* C23: every code generateStyleCode returns is a prefix of exactly 9
\* characters followed by the sequence zero-padded to at least 3 digits, so
\* that parsing the returned code by the peer rule yields exactly
\* maxSequence + 1; the returned PatternSpecNumber equals the code.
C23_RoundTrip ==
    (calls > 0 /\ ~generated.isNull)
        => /\ Len(FixedPrefix(style)) = FIXED_PREFIX_LENGTH
           /\ Len(generated.StyleCode) >= FIXED_PREFIX_LENGTH + PadWidth
           /\ ~SequenceOf(generated.StyleCode).isNaN
           /\ SequenceOf(generated.StyleCode).num = MaxSequence(similarStyles) + 1
           /\ generated.PatternSpecNumber = generated.StyleCode

\* the same for the records whose brand, season and category give a prefix
\* of 9 characters
C23_RoundTripWhenPrefixIsFull ==
    Len(FixedPrefix(style)) = FIXED_PREFIX_LENGTH => C23_RoundTrip

\* an optional sign followed by digits only, at least one
IsBase10Integer(s) ==
    LET u == IF s # <<>> /\ Head(s) \in {"+", "-"} THEN Tail(s) ELSE s
    IN  u # <<>> /\ \A i \in DOMAIN u : IsDigit(u[i])

Malformed(code) ==
    \/ code = <<>>
    \/ Len(code) <= FIXED_PREFIX_LENGTH
    \/ ~IsBase10Integer(SubstringFrom(code, FIXED_PREFIX_LENGTH))

RemoveAt(seq, i) == SubSeq(seq, 1, i - 1) \o SubSeq(seq, i + 1, Len(seq))

\* C9: a peer whose code is absent, no longer than the prefix, or whose suffix
\* is not a base-10 integer does not change the result: the call returns what
\* it returns on the list without that peer.
C9_MalformedIgnored ==
    calls > 0
        => \A i \in DOMAIN similarStyles :
               Malformed(similarStyles[i].StyleCode)
                   => generated = generateStyleCode(style, RemoveAt(similarStyles, i))

\* the same for the peers parseInt gives NaN for (no leading digits at all)
C9_UnparsableIgnored ==
    calls > 0
        => \A i \in DOMAIN similarStyles :
               SequenceOf(similarStyles[i].StyleCode).isNaN
                   => generated = generateStyleCode(style, RemoveAt(similarStyles, i))

====
